---- MODULE Spec2Model ----
(***************************************************************************)
(* Model of the survey aggregator: the command-line script answer.py (one  *)
(* query q1..q13 answered per run over the table read from                 *)
(* data_kuesioner.xlsx / .csv) and the score table the dashboard app.py    *)
(* builds in muat_data_kuesioner.                                          *)
(*                                                                         *)
(* Numbers the script prints with a fixed number of decimals are kept as   *)
(* scaled integers: a percentage printed with one decimal is kept in       *)
(* tenths (25.0 is 250), a mean printed with two decimals in hundredths    *)
(* (4.50 is 450).  A mean that is compared but not printed is kept as the  *)
(* pair <<sum, n>>.                                                        *)
(***************************************************************************)
EXTENDS Integers, Sequences, FiniteSets, TLC

\* Bounds of the tables explored: rows, question columns, cells.
MaxRows == 2
MaxCols == 2
MaxCells == 4

(***************************************************************************)
(* Data                                                                    *)
(***************************************************************************)
\* answer.py:29-36  skor_map, keys and scores
Labels == {"SS", "S", "CS", "CTS", "TS", "STS"}

skor_map ==
    [s \in Labels |->
        CASE s = "SS"  -> 6
          [] s = "S"   -> 5
          [] s = "CS"  -> 4
          [] s = "CTS" -> 3
          [] s = "TS"  -> 2
          [] s = "STS" -> 1]

\* A non-missing cell whose text is no key of skor_map, and the missing cell (NaN).
Other == "X"
NA == "NA"
CellValues == Labels \cup {Other, NA}

\* The tables a data file can hold: ncols question columns (the identifier
\* column is already dropped, answer.py:16), one function per respondent row.
Shapes == {s \in (0..MaxRows) \X (0..MaxCols) : s[1] * s[2] <= MaxCells}

Tables ==
    UNION {{[ncols |-> s[2], nrows |-> s[1], rows |-> rws] :
                rws \in [1..s[1] -> [1..s[2] -> CellValues]]} : s \in Shapes}

EmptyTable == [ncols |-> 0, nrows |-> 0, rows |-> <<>>]

\* answer.py:16  pertanyaan = list(df.columns[1:]), in column order
pertanyaan(d) == 1..d.ncols

\* answer.py:17  total_responden = len(df)
total_responden(d) == d.nrows

Cells(d) == (1..d.nrows) \X (1..d.ncols)

Cell(d, p) == d.rows[p[1]][p[2]]

\* all_answers without the pd.notna filter: the missing cells stay in.
all_answers_KeepMissing(d) == Cells(d)

\* answer.py:22-23  all_answers: the cells left after pd.notna
all_answers(d) == {p \in Cells(d) : Cell(d, p) # NA}

\* answer.py:24  total_respon = len(all_answers)
total_respon(d) == Cardinality(all_answers(d))

\* answer.py:26  counts = value_counts(): the labels present, each with its count
CountOf(d, s) == Cardinality({p \in all_answers(d) : Cell(d, p) = s})

counts(d) ==
    [s \in {x \in Labels \cup {Other} : CountOf(d, x) > 0} |-> CountOf(d, s)]

\* counts.get(skala, 0)
counts_get(d, s) == IF s \in DOMAIN counts(d) THEN counts(d)[s] ELSE 0

(***************************************************************************)
(* Arithmetic and text                                                     *)
(***************************************************************************)
\* The integer nearest num/den (den > 0, num >= 0), halves to the even one:
\* what round(x, n) and the formats .1f / .2f yield for the quotient scaled by
\* 10^n.  A binary double can sit exactly on a half only when den has a
\* factor 8 (two decimals) or 16 (one decimal), beyond the tables explored.
RoundHalfEven(num, den) ==
    LET q == num \div den
        r == num % den
    IN  IF 2 * r < den THEN q
        ELSE IF 2 * r > den THEN q + 1
        ELSE IF q % 2 = 0 THEN q ELSE q + 1

\* count / total * 100 shown with one decimal, in tenths
Tenths(count, total) == RoundHalfEven(count * 1000, total)

\* sum / n shown with two decimals, in hundredths
Hundredths(sum, n) == RoundHalfEven(sum * 100, n)

\* a/b < c/d for means kept as <<sum, n>> with n > 0
MeanLess(a, b) == a[1] * b[2] < b[1] * a[2]

\* str.strip(): whitespace removed at both ends
IsSpace(ch) == ch \in {" ", "\t", "\n"}

RECURSIVE LStrip(_)
LStrip(s) == IF s # <<>> /\ IsSpace(Head(s)) THEN LStrip(Tail(s)) ELSE s

RECURSIVE RStrip(_)
RStrip(s) ==
    IF s # <<>> /\ IsSpace(s[Len(s)]) THEN RStrip(SubSeq(s, 1, Len(s) - 1)) ELSE s

strip(s) == RStrip(LStrip(s))

\* The query code compared without .lower().
lower_Unchanged(s) == s

\* str.lower() on the letters the inputs explored use
LowerChar(ch) ==
    CASE ch = "Q" -> "q"
      [] ch = "X" -> "x"
      [] OTHER -> ch

lower(s) == [i \in 1..Len(s) |-> LowerChar(s[i])]

\* The query codes "q1" .. "q13" as character sequences
Digit == <<"1", "2", "3", "4", "5", "6", "7", "8", "9">>

Code(n) ==
    IF n < 10 THEN <<"q", Digit[n]>>
    ELSE IF n = 10 THEN <<"q", "1", "0">>
    ELSE <<"q", "1", Digit[n - 10]>>

QueryCodes == {Code(n) : n \in 1..13}

\* Texts given as the query code (argv[1] or a line of stdin)
RawInputs ==
    QueryCodes \cup
    { <<"Q", "7">>, <<" ", "q", "9", " ">>, <<"\t", "Q", "1", "0", "\n">>,
      <<>>, <<"q", "1", "4">>, <<"q", " ", "1">>, <<"X", "q", "1">> }

(***************************************************************************)
(* What each query computes                                                *)
(***************************************************************************)
\* (df[q] == skala).sum()
ColCount(d, q, skala) == Cardinality({i \in 1..d.nrows : d.rows[i][q] = skala})

\* The divisor of q9 taken as the number of rows, missing answers included.
total_valid_AllRows(d, q) == d.nrows

\* len(df[q].dropna())
total_valid(d, q) == Cardinality({i \in 1..d.nrows : d.rows[i][q] # NA})

\* answer.py:74-75  hasil[q] = (df[q] == skala).sum() for q in pertanyaan
hasil(d, skala) == [q \in pertanyaan(d) |-> ColCount(d, q, skala)]

\* The last key of greatest value, as a scan keeping ties (>=) would return.
LastMax(h) ==
    CHOOSE q \in DOMAIN h :
        \A p \in DOMAIN h : h[p] <= h[q] /\ (p > q => h[p] < h[q])

\* max(hasil, key=hasil.get): the first key, in insertion (column) order, whose
\* value no other key exceeds
FirstMax(h) ==
    CHOOSE q \in DOMAIN h :
        \A p \in DOMAIN h : h[p] <= h[q] /\ (p < q => h[p] < h[q])

\* counts.idxmax() / counts.idxmin(): a label of greatest / least count.  Among
\* labels of equal count value_counts() fixes no order, so each is possible.
idxmax(c) == {s \in DOMAIN c : \A t \in DOMAIN c : c[t] <= c[s]}

idxmin(c) == {s \in DOMAIN c : \A t \in DOMAIN c : c[t] >= c[s]}

\* answer.py:27  percent = counts / total_respon * 100, or counts * 0
percent(d) ==
    [s \in DOMAIN counts(d) |->
        IF total_respon(d) > 0 THEN Tenths(counts(d)[s], total_respon(d)) ELSE 0]

\* answer.py:64-69  skala_map
skala_map(code) ==
    CASE code = Code(3) -> "SS"
      [] code = Code(4) -> "S"
      [] code = Code(5) -> "CS"
      [] code = Code(6) -> "CTS"

\* answer.py:116-121  the q9 loop from question q on: the entries appended
RECURSIVE Q9Output(_, _)
Q9Output(d, q) ==
    IF q > d.ncols THEN <<>>
    ELSE LET jumlah == ColCount(d, q, "STS")
             valid == total_valid(d, q)
         IN  (IF jumlah > 0 /\ valid > 0
                 THEN << <<q, Tenths(jumlah, valid)>> >>
                 ELSE <<>>) \o Q9Output(d, q + 1)

\* answer.py:128-130  total_skor += counts.get(skala, 0) * skor_map[skala]
RECURSIVE SumScores(_, _)
SumScores(d, keys) ==
    IF keys = {} THEN 0
    ELSE LET k == CHOOSE x \in keys : TRUE
         IN  counts_get(d, k) * skor_map[k] + SumScores(d, keys \ {k})

total_skor(d) == SumScores(d, Labels)

\* df[q].map(skor_map).dropna(): the rows of q whose cell is a key of skor_map
skor_values(d, q) == {i \in 1..d.nrows : d.rows[i][q] \in Labels}

RECURSIVE SumCol(_, _, _)
SumCol(d, q, rws) ==
    IF rws = {} THEN 0
    ELSE LET i == CHOOSE x \in rws : TRUE
         IN  skor_map[d.rows[i][q]] + SumCol(d, q, rws \ {i})

\* answer.py:139-143  skor_q[q] = skor_values.mean(), kept as <<sum, n>>, for
\* the questions whose skor_values is not empty
skor_q(d) ==
    [q \in {x \in pertanyaan(d) : skor_values(d, x) # {}} |->
        <<SumCol(d, q, skor_values(d, q)), Cardinality(skor_values(d, q))>>]

\* max(skor_q, key=skor_q.get) and min(skor_q, key=skor_q.get): the first key in
\* column order of greatest / least mean
FirstMaxMean(m) ==
    CHOOSE q \in DOMAIN m :
        \A p \in DOMAIN m : ~MeanLess(m[q], m[p]) /\ (p < q => MeanLess(m[p], m[q]))

FirstMinMean(m) ==
    CHOOSE q \in DOMAIN m :
        \A p \in DOMAIN m : ~MeanLess(m[p], m[q]) /\ (p < q => MeanLess(m[q], m[p]))

\* The negative bucket with "STS" forgotten.
negatif_NoSTS(d) == counts_get(d, "CTS") + counts_get(d, "TS")

\* answer.py:168-170  the three buckets of q13
positif(d) == counts_get(d, "SS") + counts_get(d, "S")

netral(d) == counts_get(d, "CS")

negatif(d) == counts_get(d, "CTS") + counts_get(d, "TS") + counts_get(d, "STS")

(***************************************************************************)
(* The printed line.  kind names its shape; the fields a shape does not    *)
(* use keep the values of NoOut.                                           *)
(*   "freq"     skala|count|num           (q1, q2; num in tenths)          *)
(*   "question" q|count|num               (q3..q8; num in tenths, or nan)  *)
(*   "list"     q:pct|q:pct|...           (q9; items = <<q, tenths>>)      *)
(*   "mean"     num                       (q10; hundredths)                *)
(*   "qmean"    q:num                     (q11, q12; hundredths)           *)
(*   "buckets"  positif=..|netral=..|negatif=..  (q13; <<count, tenths>>)  *)
(*   "nodata", "invalid", "nofile"        the three messages               *)
(***************************************************************************)
NoOut ==
    [kind |-> "none", skala |-> "", q |-> 0, count |-> 0, num |-> 0,
     nan |-> FALSE, items |-> <<>>]

(***************************************************************************)
(* State                                                                   *)
(***************************************************************************)
VARIABLES
    files,            \* which data files can be read: [xlsx, csv]
    pc,               \* where the run stands
    df,               \* the table read
    raw,              \* the text given as the query code
    target_question,  \* raw after .strip().lower()
    out,              \* the line printed on standard output
    exc,              \* the exception that ended the run, "" for none
    exit_code,        \* "running", then the exit status "0" or "1"
    df_skor,          \* app.py: the score table of muat_data_kuesioner
    rata_pertanyaan   \* app.py: the per-question means of the dashboard

vars ==
    <<files, pc, df, raw, target_question, out, exc, exit_code, df_skor,
      rata_pertanyaan>>

NoSkor == [skor |-> <<>>, Total_Skor |-> <<>>, Rata_Rata |-> <<>>]

Init ==
    /\ files \in [xlsx : BOOLEAN, csv : BOOLEAN]
    /\ pc = "start"
    /\ df = EmptyTable
    /\ raw = <<>>
    /\ target_question = <<>>
    /\ out = NoOut
    /\ exc = ""
    /\ exit_code = "running"
    /\ df_skor = NoSkor
    /\ rata_pertanyaan = <<>>

(***************************************************************************)
(* answer.py: reading the data and the query code                          *)
(***************************************************************************)
\* answer.py:7-8  df = pd.read_excel("data_kuesioner.xlsx")
ReadExcel ==
    /\ pc = "start"
    /\ files.xlsx
    /\ df' \in Tables
    /\ pc' = "loaded"
    /\ UNCHANGED <<files, raw, target_question, out, exc, exit_code, df_skor,
                   rata_pertanyaan>>

\* answer.py:9-11  the xlsx could not be read: df = pd.read_csv("data_kuesioner.csv")
ReadCsv ==
    /\ pc = "start"
    /\ ~files.xlsx
    /\ files.csv
    /\ df' \in Tables
    /\ pc' = "loaded"
    /\ UNCHANGED <<files, raw, target_question, out, exc, exit_code, df_skor,
                   rata_pertanyaan>>

\* answer.py:12-14  neither could be read: the message, then sys.exit(1)
ExitNoFile ==
    /\ pc = "start"
    /\ ~files.xlsx
    /\ ~files.csv
    /\ out' = [NoOut EXCEPT !.kind = "nofile"]
    /\ exit_code' = "1"
    /\ pc' = "exited"
    /\ UNCHANGED <<files, df, raw, target_question, exc, df_skor, rata_pertanyaan>>

\* answer.py:41-44  target_question = sys.argv[1].strip().lower(), or the same
\* of input()
ReadInput ==
    /\ pc = "loaded"
    /\ \E text \in RawInputs :
          /\ raw' = text
          /\ target_question' = lower(strip(text))
    /\ pc' = "dispatch"
    /\ UNCHANGED <<files, df, out, exc, exit_code, df_skor, rata_pertanyaan>>

\* The branch taken printed `line` and the script ran off its end.
Finish(line) ==
    /\ out' = line
    /\ exc' = ""
    /\ exit_code' = "0"
    /\ pc' = "done"
    /\ UNCHANGED <<files, df, raw, target_question, df_skor, rata_pertanyaan>>

\* The branch taken raised `name`, which nothing catches: no line on standard
\* output, the traceback, exit status 1.
Raise(name) ==
    /\ out' = NoOut
    /\ exc' = name
    /\ exit_code' = "1"
    /\ pc' = "done"
    /\ UNCHANGED <<files, df, raw, target_question, df_skor, rata_pertanyaan>>

(***************************************************************************)
(* answer.py: the branches                                                 *)
(***************************************************************************)
\* answer.py:49-51  idxmax() of an empty Series raises ValueError
Q1 ==
    /\ pc = "dispatch"
    /\ target_question = Code(1)
    /\ IF DOMAIN counts(df) = {}
          THEN Raise("ValueError")
          ELSE \E skala \in idxmax(counts(df)) :
                  Finish([NoOut EXCEPT !.kind = "freq", !.skala = skala,
                                       !.count = counts(df)[skala],
                                       !.num = percent(df)[skala]])

\* answer.py:56-58
Q2 ==
    /\ pc = "dispatch"
    /\ target_question = Code(2)
    /\ IF DOMAIN counts(df) = {}
          THEN Raise("ValueError")
          ELSE \E skala \in idxmin(counts(df)) :
                  Finish([NoOut EXCEPT !.kind = "freq", !.skala = skala,
                                       !.count = counts(df)[skala],
                                       !.num = percent(df)[skala]])

\* The line "q|count|persen" of q3..q6, persen = round(count_max /
\* total_responden * 100, 1) of the greatest count.  The count is a numpy
\* integer, so with no respondent rows the quotient is nan and nothing is raised.
QuestionLine(d, skala) ==
    LET h == hasil(d, skala)
        q_max == FirstMax(h)
        count_max == h[q_max]
    IN  IF total_responden(d) = 0
           THEN [NoOut EXCEPT !.kind = "question", !.q = q_max,
                              !.count = count_max, !.nan = TRUE]
           ELSE [NoOut EXCEPT !.kind = "question", !.q = q_max,
                              !.count = count_max,
                              !.num = Tenths(count_max, total_responden(d))]

\* answer.py:86-95, 100-109  the line of q7 and q8: question and persen as for
\* q3..q6 with "TS", the count field the literal 8
TSLine(d) == [QuestionLine(d, "TS") EXCEPT !.count = 8]

\* answer.py:63-81  max() of an empty dict raises ValueError
Q3to6 ==
    /\ pc = "dispatch"
    /\ target_question \in {Code(3), Code(4), Code(5), Code(6)}
    /\ IF pertanyaan(df) = {}
          THEN Raise("ValueError")
          ELSE Finish(QuestionLine(df, skala_map(target_question)))

\* answer.py:86-95
Q7 ==
    /\ pc = "dispatch"
    /\ target_question = Code(7)
    /\ IF pertanyaan(df) = {}
          THEN Raise("ValueError")
          ELSE Finish(TSLine(df))

\* answer.py:100-109
Q8 ==
    /\ pc = "dispatch"
    /\ target_question = Code(8)
    /\ IF pertanyaan(df) = {}
          THEN Raise("ValueError")
          ELSE Finish(TSLine(df))

\* answer.py:114-122
Q9 ==
    /\ pc = "dispatch"
    /\ target_question = Code(9)
    /\ Finish([NoOut EXCEPT !.kind = "list", !.items = Q9Output(df, 1)])

\* answer.py:127-133  total_skor / total_respon of two Python ints raises
\* ZeroDivisionError when total_respon is 0
Q10 ==
    /\ pc = "dispatch"
    /\ target_question = Code(10)
    /\ IF total_respon(df) = 0
          THEN Raise("ZeroDivisionError")
          ELSE Finish([NoOut EXCEPT !.kind = "mean",
                                    !.num = Hundredths(total_skor(df), total_respon(df))])

\* answer.py:138-146  max() of an empty dict raises ValueError
Q11 ==
    /\ pc = "dispatch"
    /\ target_question = Code(11)
    /\ IF DOMAIN skor_q(df) = {}
          THEN Raise("ValueError")
          ELSE LET m == skor_q(df)
                   q_target == FirstMaxMean(m)
               IN  Finish([NoOut EXCEPT !.kind = "qmean", !.q = q_target,
                                        !.num = Hundredths(m[q_target][1], m[q_target][2])])

\* answer.py:151-162
Q12 ==
    /\ pc = "dispatch"
    /\ target_question = Code(12)
    /\ IF DOMAIN skor_q(df) = {}
          THEN Finish([NoOut EXCEPT !.kind = "nodata"])
          ELSE LET m == skor_q(df)
                   q_target == FirstMinMean(m)
               IN  Finish([NoOut EXCEPT !.kind = "qmean", !.q = q_target,
                                        !.num = Hundredths(m[q_target][1], m[q_target][2])])

\* answer.py:167-180
Q13 ==
    /\ pc = "dispatch"
    /\ target_question = Code(13)
    /\ IF total_respon(df) = 0
          THEN Raise("ZeroDivisionError")
          ELSE LET n == total_respon(df)
               IN  Finish([NoOut EXCEPT
                      !.kind = "buckets",
                      !.items = << <<positif(df), Tenths(positif(df), n)>>,
                                   <<netral(df), Tenths(netral(df), n)>>,
                                   <<negatif(df), Tenths(negatif(df), n)>> >>])

\* answer.py:182-183
InvalidInput ==
    /\ pc = "dispatch"
    /\ target_question \notin QueryCodes
    /\ Finish([NoOut EXCEPT !.kind = "invalid"])

(***************************************************************************)
(* app.py: the score table and the per-question means of the dashboard     *)
(***************************************************************************)
\* app.py:63  df_skor[kolom].map(mapping_skor).fillna(0): a cell that is
\* missing, or no key of the mapping, becomes 0.  mapping_skor is read from
\* the sheet "Keterangan"; it is taken to hold the six scores of skor_map.
skor_cell(v) == IF v \in Labels THEN skor_map[v] ELSE 0

RECURSIVE SumSeq(_, _)
SumSeq(f, n) == IF n = 0 THEN 0 ELSE f[n] + SumSeq(f, n - 1)

\* app.py:58-67  df_skor with Total_Skor = sum(axis=1) and Rata_Rata =
\* mean(axis=1) over the question columns, the mean kept as <<sum, n>>
build_df_skor(d) ==
    LET skor == [i \in 1..d.nrows |-> [q \in 1..d.ncols |-> skor_cell(d.rows[i][q])]]
    IN  [skor |-> skor,
         Total_Skor |-> [i \in 1..d.nrows |-> SumSeq(skor[i], d.ncols)],
         Rata_Rata |-> [i \in 1..d.nrows |-> <<SumSeq(skor[i], d.ncols), d.ncols>>]]

\* app.py:22-74, 77-81  muat_data_kuesioner.  Without the file, or with a sheet
\* that lacks the question columns, it returns None and the page stops.
MuatDataKuesioner ==
    /\ pc = "start"
    /\ IF ~files.xlsx
          THEN /\ pc' = "app_stopped"
               /\ UNCHANGED <<df, df_skor>>
          ELSE \E d \in Tables :
                  IF d.ncols = 0
                     THEN /\ pc' = "app_stopped"
                          /\ UNCHANGED <<df, df_skor>>
                     ELSE /\ df' = d
                          /\ df_skor' = build_df_skor(d)
                          /\ pc' = "app_loaded"
    /\ UNCHANGED <<files, raw, target_question, out, exc, exit_code, rata_pertanyaan>>

\* app.py:80-81  df_skor.empty: st.stop()
DashboardStop ==
    /\ pc = "app_loaded"
    /\ df.nrows = 0
    /\ pc' = "app_stopped"
    /\ UNCHANGED <<files, df, raw, target_question, out, exc, exit_code, df_skor,
                   rata_pertanyaan>>

\* app.py:127, 202  df_skor[kolom_pertanyaan].mean(): per question, the mean of
\* its column of df_skor over all rows, kept as <<sum, n>>
Dashboard ==
    /\ pc = "app_loaded"
    /\ df.nrows > 0
    /\ rata_pertanyaan' =
          [q \in 1..df.ncols |->
              <<SumSeq([i \in 1..df.nrows |-> df_skor.skor[i][q]], df.nrows), df.nrows>>]
    /\ pc' = "app_done"
    /\ UNCHANGED <<files, df, raw, target_question, out, exc, exit_code, df_skor>>

Next ==
    \/ ReadExcel
    \/ ReadCsv
    \/ ExitNoFile
    \/ ReadInput
    \/ Q1
    \/ Q2
    \/ Q3to6
    \/ Q7
    \/ Q8
    \/ Q9
    \/ Q10
    \/ Q11
    \/ Q12
    \/ Q13
    \/ InvalidInput
    \/ MuatDataKuesioner
    \/ DashboardStop
    \/ Dashboard

Spec == Init /\ [][Next]_vars

(***************************************************************************)
(* Properties.  They are stated on the table itself, cell by cell, and not *)
(* through the operators above that model the script.                      *)
(***************************************************************************)
\* The table obeys the data model: every non-missing cell is a key of ScoreMap.
WellFormed(d) == \A p \in Cells(d) : Cell(d, p) \in Labels \cup {NA}

NonMissing(d) == {p \in Cells(d) : Cell(d, p) # NA}

Scored(d) == {p \in Cells(d) : Cell(d, p) \in Labels}

ScoreMap(v) ==
    CASE v = "SS" -> 6 [] v = "S" -> 5 [] v = "CS" -> 4
      [] v = "CTS" -> 3 [] v = "TS" -> 2 [] v = "STS" -> 1

RECURSIVE ScoreSum(_, _)
ScoreSum(d, cells) ==
    IF cells = {} THEN 0
    ELSE LET p == CHOOSE x \in cells : TRUE
         IN  ScoreMap(Cell(d, p)) + ScoreSum(d, cells \ {p})

\* The answers of question q that carry label v / that are not missing.
Answers(d, q, v) == {i \in 1..d.nrows : d.rows[i][q] = v}

Answered(d, q) == {i \in 1..d.nrows : d.rows[i][q] # NA}

Abs(x) == IF x < 0 THEN -x ELSE x

\* shown is num/den rounded at the last digit shown: no further from num/den
\* than half a unit of that digit (shown and num/den scaled alike).
IsRounded(shown, num, den) == 2 * Abs(shown * den - num) <= den

Ran(code) == pc = "done" /\ target_question = code

\* C1: on every response table for which the mean exists (the table obeys the
\* data model and has at least one non-missing cell), q10 prints the arithmetic
\* mean of the ScoreMap scores of all non-missing cells, rounded to 2 decimals.
C1_Q10PrintsMean ==
    (Ran(Code(10)) /\ WellFormed(df) /\ NonMissing(df) # {}) =>
        /\ exc = ""
        /\ out.kind = "mean"
        /\ IsRounded(out.num, 100 * ScoreSum(df, NonMissing(df)),
                     Cardinality(NonMissing(df)))

\* q10 ran on a table with a missing cell and two scored ones, SS and TS, and
\* printed 4.00.
C1_Witness ==
    /\ Ran(Code(10))
    /\ WellFormed(df)
    /\ Cardinality(NonMissing(df)) = 2
    /\ Cardinality(Cells(df)) > 2
    /\ \E p, r \in NonMissing(df) : Cell(df, p) = "SS" /\ Cell(df, r) = "TS"
    /\ out.kind = "mean"
    /\ out.num = 400

\* C2: a division whose total is 0 never raises: on a table with no
\* non-missing cell (no respondent rows, or every cell missing) the queries
\* that divide by the number of non-missing cells, q10 and q13, complete, and
\* every number computed against the zero total is reported as 0.
C2_ZeroTotalReportsZero ==
    ((Ran(Code(10)) \/ Ran(Code(13))) /\ NonMissing(df) = {}) =>
        /\ exc = ""
        /\ exit_code = "0"
        /\ out.kind # "none"
        /\ out.num = 0
        /\ \A k \in DOMAIN out.items : out.items[k][2] = 0

\* C3: q7 and q8 print (question, count, percent): the first question with the
\* most "TS" answers, the number of "TS" answers of that question counted from
\* the table, and count / respondents * 100 rounded to 1 decimal.
C3_Q7Q8CountFromTable ==
    ((Ran(Code(7)) \/ Ran(Code(8))) /\ df.ncols > 0 /\ df.nrows > 0) =>
        /\ exc = ""
        /\ out.kind = "question"
        /\ out.q \in 1..df.ncols
        /\ \A p \in 1..df.ncols :
              Cardinality(Answers(df, p, "TS")) <= Cardinality(Answers(df, out.q, "TS"))
        /\ out.count = Cardinality(Answers(df, out.q, "TS"))
        /\ IsRounded(out.num, 1000 * Cardinality(Answers(df, out.q, "TS")), df.nrows)

\* C4: q9 lists, in column order, exactly the questions with at least one "STS"
\* answer, each with STS-count / (that question's non-missing answers) * 100
\* rounded to 1 decimal.
C4_Q9ListsSTSQuestions ==
    Ran(Code(9)) =>
        /\ exc = ""
        /\ out.kind = "list"
        /\ \A k \in DOMAIN out.items :
              /\ out.items[k][1] \in 1..df.ncols
              /\ k > 1 => out.items[k - 1][1] < out.items[k][1]
              /\ IsRounded(out.items[k][2],
                           1000 * Cardinality(Answers(df, out.items[k][1], "STS")),
                           Cardinality(Answered(df, out.items[k][1])))
        /\ {out.items[k][1] : k \in DOMAIN out.items}
              = {q \in 1..df.ncols : Answers(df, q, "STS") # {}}

\* q9 ran on a table with two questions and two rows: the first question has one
\* "STS" answer and one missing answer and is listed with 100.0, the second has
\* no "STS" answer and is left out.
C4_Witness ==
    /\ Ran(Code(9))
    /\ df.ncols = 2
    /\ df.nrows = 2
    /\ Cardinality(Answers(df, 1, "STS")) = 1
    /\ Cardinality(Answers(df, 1, NA)) = 1
    /\ Answers(df, 2, "STS") = {}
    /\ Answered(df, 2) # {}
    /\ out.items = << <<1, 1000>> >>

\* C5: on every response table with at least one non-missing cell, the three
\* bucket counts of q13 are the numbers of cells labelled {SS, S}, {CS} and
\* {CTS, TS, STS}, they sum to the number of non-missing cells, each percentage
\* is its count / total * 100 rounded to 1 decimal, and the three percentages
\* sum to 100.0 within 0.1 per bucket.
LabelledIn(d, set) == Cardinality({p \in Cells(d) : Cell(d, p) \in set})

C5_Q13BucketsSumTo100 ==
    (Ran(Code(13)) /\ WellFormed(df) /\ NonMissing(df) # {}) =>
        /\ exc = ""
        /\ out.kind = "buckets"
        /\ Len(out.items) = 3
        /\ out.items[1][1] = LabelledIn(df, {"SS", "S"})
        /\ out.items[2][1] = LabelledIn(df, {"CS"})
        /\ out.items[3][1] = LabelledIn(df, {"CTS", "TS", "STS"})
        /\ out.items[1][1] + out.items[2][1] + out.items[3][1]
              = Cardinality(NonMissing(df))
        /\ \A k \in 1..3 :
              IsRounded(out.items[k][2], 1000 * out.items[k][1],
                        Cardinality(NonMissing(df)))
        /\ Abs(out.items[1][2] + out.items[2][2] + out.items[3][2] - 1000) <= 3

\* q13 ran on a table of three answered cells, one in each bucket, and one
\* missing cell: 33.3 + 33.3 + 33.3 = 99.9.
C5_Witness ==
    /\ Ran(Code(13))
    /\ WellFormed(df)
    /\ Cardinality(NonMissing(df)) = 3
    /\ Cardinality(Cells(df)) = 4
    /\ out.kind = "buckets"
    /\ out.items = << <<1, 333>>, <<1, 333>>, <<1, 333>> >>
    /\ \E p \in Cells(df) : Cell(df, p) = "STS"

\* C6: for q3, q4, q5, q6 with target SS, S, CS, CTS: the question named has a
\* count of the target that no question exceeds and that no earlier question
\* equals; the count shown is that question's count; the percent shown is
\* count / number of respondent rows * 100 rounded to 1 decimal.
Target(n) == <<"SS", "S", "CS", "CTS">>[n - 2]

C6_Q3to6FirstMaxQuestion ==
    \A n \in 3..6 :
        (Ran(Code(n)) /\ df.ncols > 0) =>
            /\ exc = ""
            /\ out.kind = "question"
            /\ out.q \in 1..df.ncols
            /\ \A p \in 1..df.ncols :
                  /\ Cardinality(Answers(df, p, Target(n)))
                        <= Cardinality(Answers(df, out.q, Target(n)))
                  /\ p < out.q => Cardinality(Answers(df, p, Target(n)))
                                     < Cardinality(Answers(df, out.q, Target(n)))
            /\ out.count = Cardinality(Answers(df, out.q, Target(n)))
            /\ df.nrows > 0 =>
                  /\ ~out.nan
                  /\ IsRounded(out.num, 1000 * out.count, df.nrows)

\* q5 ran on a table where both questions have one "CS" answer among two rows,
\* one of them with a missing cell: the first question is named, with 50.0.
C6_Witness ==
    /\ Ran(Code(5))
    /\ df.ncols = 2
    /\ df.nrows = 2
    /\ Cardinality(Answers(df, 1, "CS")) = 1
    /\ Cardinality(Answers(df, 2, "CS")) = 1
    /\ Answers(df, 2, NA) # {}
    /\ out.kind = "question"
    /\ out.q = 1
    /\ out.count = 1
    /\ out.num = 500

\* C7: for q10, q11 and q12, when no question has a cell with a ScoreMap score
\* the run prints the "no data" message and does not raise.
C7_NoDataMessage ==
    \A n \in 10..12 :
        (Ran(Code(n)) /\ Scored(df) = {}) =>
            /\ exc = ""
            /\ exit_code = "0"
            /\ out.kind = "nodata"

\* C8: an input whose trimmed, lower-cased form is none of q1..q13 gets the
\* "invalid input" message, no aggregation result, no exception and exit status
\* 0; an input that is one of q1..q13 up to letter case and surrounding
\* whitespace is dispatched to that query.
Trimmed(s) ==
    LET keep == {i \in 1..Len(s) : s[i] \notin {" ", "\t", "\n"}}
    IN  IF keep = {} THEN <<>>
        ELSE SubSeq(s, CHOOSE i \in keep : \A j \in keep : i <= j,
                       CHOOSE i \in keep : \A j \in keep : j <= i)

Folded(s) ==
    [i \in 1..Len(s) |-> IF s[i] = "Q" THEN "q" ELSE IF s[i] = "X" THEN "x" ELSE s[i]]

\* The shapes of line the branch of query n prints.
KindsOf(n) ==
    CASE n \in {1, 2} -> {"freq"}
      [] n \in 3..8 -> {"question"}
      [] n = 9 -> {"list"}
      [] n = 10 -> {"mean"}
      [] n = 11 -> {"qmean"}
      [] n = 12 -> {"qmean", "nodata"}
      [] n = 13 -> {"buckets"}

C8_InvalidInputAndDispatch ==
    pc = "done" =>
        /\ Folded(Trimmed(raw)) \notin QueryCodes =>
              /\ out.kind = "invalid"
              /\ exc = ""
              /\ exit_code = "0"
        /\ \A n \in 1..13 :
              Folded(Trimmed(raw)) = Code(n) =>
                  /\ target_question = Code(n)
                  /\ exc # "" \/ out.kind \in KindsOf(n)

\* The input "q 1" (a blank inside, which trimming keeps) was answered with the
\* "invalid input" message on a table that has answers.
C8_Witness ==
    /\ pc = "done"
    /\ raw = <<"q", " ", "1">>
    /\ NonMissing(df) # {}
    /\ out.kind = "invalid"
    /\ exit_code = "0"

\* C9: a missing cell is left out of the numerator and of the denominator of
\* every mean: the overall mean of q10, and in the dashboard each respondent's
\* average over the questions and each question's average over the
\* respondents are means over the answered cells only.
RowAnswered(d, i) == {p \in Cells(d) : p[1] = i /\ Cell(d, p) # NA}

ColAnswered(d, q) == {p \in Cells(d) : p[2] = q /\ Cell(d, p) # NA}

C9_MissingLeftOutOfMeans ==
    WellFormed(df) =>
        /\ (Ran(Code(10)) /\ exc = "") =>
              IsRounded(out.num, 100 * ScoreSum(df, NonMissing(df)),
                        Cardinality(NonMissing(df)))
        /\ pc \in {"app_loaded", "app_done"} =>
              \A i \in 1..df.nrows :
                  RowAnswered(df, i) # {} =>
                      df_skor.Rata_Rata[i][1] * Cardinality(RowAnswered(df, i))
                          = ScoreSum(df, RowAnswered(df, i)) * df_skor.Rata_Rata[i][2]
        /\ pc = "app_done" =>
              \A q \in 1..df.ncols :
                  ColAnswered(df, q) # {} =>
                      rata_pertanyaan[q][1] * Cardinality(ColAnswered(df, q))
                          = ScoreSum(df, ColAnswered(df, q)) * rata_pertanyaan[q][2]

\* C10: a non-missing cell whose label is no key of ScoreMap is counted as a
\* label by q1 and q2 and in the total cell count, and is left out of the sum
\* and of the divisor of every mean: q10 prints the mean of the scored cells,
\* q11 and q12 the greatest and least per-question mean over the scored cells.
ColScored(d, q) == {p \in Cells(d) : p[2] = q /\ Cell(d, p) \in Labels}

C10_UnknownLabelLeftOutOfMeans ==
    /\ ((Ran(Code(1)) \/ Ran(Code(2))) /\ exc = "") =>
          /\ out.count = Cardinality({p \in Cells(df) : Cell(df, p) = out.skala})
          /\ IsRounded(out.num, 1000 * out.count, Cardinality(NonMissing(df)))
    /\ (Ran(Code(10)) /\ Scored(df) # {}) =>
          /\ exc = ""
          /\ out.kind = "mean"
          /\ IsRounded(out.num, 100 * ScoreSum(df, Scored(df)), Cardinality(Scored(df)))
    /\ ((Ran(Code(11)) \/ Ran(Code(12))) /\ Scored(df) # {}) =>
          /\ exc = ""
          /\ out.kind = "qmean"
          /\ ColScored(df, out.q) # {}
          /\ IsRounded(out.num, 100 * ScoreSum(df, ColScored(df, out.q)),
                       Cardinality(ColScored(df, out.q)))

\* C11: a run of answer.py that has ended has exit status 1 exactly when
\* neither data_kuesioner.xlsx nor data_kuesioner.csv could be read, and then
\* it ended before any query code was read and printed no query result; every
\* other run, whatever the table and the query input, has exit status 0.
C11_ExitOneOnlyWithoutData ==
    pc \in {"done", "exited"} =>
        /\ exit_code \in {"0", "1"}
        /\ exit_code = "1" <=> (~files.xlsx /\ ~files.csv)
        /\ exit_code = "1" =>
              /\ pc = "exited"
              /\ raw = <<>>
              /\ target_question = <<>>
              /\ out.kind = "nofile"

====
